---- MODULE Spec2Model ----
(***************************************************************************)
(* The prompt formatter family of eval/prompt_formatters.py and the        *)
(* registry of eval/constants.py.                                          *)
(*                                                                         *)
(* A Python str is a sequence of pieces.  A piece is one character, or a   *)
(* run of characters that no operation of the formatters ever splits (a    *)
(* literal of a template, a name, the language tag of a code fence).       *)
(* Concatenation is \o, and the str operations used by the code (join,     *)
(* replace, strip, find, endswith, format) are computed on the pieces as   *)
(* CPython computes them on characters.                                    *)
(*                                                                         *)
(* An Optional value is a record [some, val]; None is [some |-> FALSE].    *)
(*                                                                         *)
(* The grave accent (U+0060), the character code fences are made of, is    *)
(* written as the piece Tick, and a run of three of them inside the        *)
(* literal text of a template as <fence>.                                  *)
(***************************************************************************)
EXTENDS Integers, Sequences, FiniteSets, TLC

VARIABLES
    _cache,     \* RajkumarFormatter._cache, shared by every derived class
    call,       \* the call the driver has made: operation, class, arguments, result,
                \* and for format_all_tables the branch it took ("miss" or "hit")
    returns,    \* history: <<key, result>> of every format_all_tables call that returned
    registry,   \* the constants module: "unloaded", "ImportError", or the mapping
    model,      \* DuckDBChat.model: None or the Manifest client, named by its ordinal
    manifest,   \* the Manifest service as the chat class has used it
    threads     \* concurrent callers of format_all_tables: line reached and locals

vars == <<_cache, call, returns, registry, model, manifest, threads>>

----------------------------------------------------------------------------
(* Bounds of the model *)

MaxCache == 2       \* memo entries after which the driver asks for no further key
MaxColumns == 2     \* longest column list of a table handed to format_table
MaxBody == 3        \* longest body of a model output between its fences
MaxContext == 2     \* longest retrieved-context list
MaxReturns == 3     \* returns after which the mutating caller asks for no further list
MaxAppended == 1    \* elements a caller appends to a list beyond its original length

----------------------------------------------------------------------------
(* Python values *)

None == [some |-> FALSE, val |-> <<>>]
Some(v) == [some |-> TRUE, val |-> v]

\* x or default: None and the empty str / list are falsy
Or(x, default) == IF x.some /\ x.val # <<>> THEN x.val ELSE default

\* the parts one after the other, the separator left out
RECURSIVE join_without_sep(_, _)
join_without_sep(sep, parts) ==
    IF parts = <<>> THEN <<>> ELSE parts[1] \o join_without_sep(sep, Tail(parts))

\* sep.join(parts)
RECURSIVE join(_, _)
join(sep, parts) ==
    IF parts = <<>> THEN <<>>
    ELSE IF Len(parts) = 1 THEN parts[1]
    ELSE parts[1] \o sep \o join(sep, Tail(parts))

\* s.startswith(p) at offset i (1-based)
MatchAt(s, p, i) ==
    /\ i + Len(p) - 1 <= Len(s)
    /\ \A j \in 1..Len(p) : s[i + j - 1] = p[j]

\* p in s
Contains(s, p) == \E i \in 1..(Len(s) + 1) : MatchAt(s, p, i)

\* s.endswith(p)
endswith(s, p) == Len(p) <= Len(s) /\ MatchAt(s, p, Len(s) - Len(p) + 1)

\* s.find(p): 0-based index of the first occurrence, -1 if none
find(s, p) ==
    IF Contains(s, p)
    THEN (CHOOSE i \in 1..(Len(s) + 1) :
              MatchAt(s, p, i) /\ \A j \in 1..(i - 1) : ~MatchAt(s, p, j)) - 1
    ELSE -1

\* s.replace(old, new) for a non-empty old: leftmost, non-overlapping, one pass
RECURSIVE replace(_, _, _)
replace(s, old, new) ==
    IF s = <<>> THEN <<>>
    ELSE IF MatchAt(s, old, 1)
         THEN new \o replace(SubSeq(s, Len(old) + 1, Len(s)), old, new)
         ELSE <<Head(s)>> \o replace(Tail(s), old, new)

Whitespace == {" ", "\n"}

\* the grave accent character
Tick == "<tick>"

\* s.strip()
RECURSIVE lstrip(_)
lstrip(s) == IF s # <<>> /\ Head(s) \in Whitespace THEN lstrip(Tail(s)) ELSE s
RECURSIVE rstrip(_)
rstrip(s) ==
    IF s # <<>> /\ s[Len(s)] \in Whitespace THEN rstrip(SubSeq(s, 1, Len(s) - 1)) ELSE s
strip(s) == rstrip(lstrip(s))

\* number of indices of s holding x
Count(s, x) == Cardinality({i \in 1..Len(s) : s[i] = x})

SeqsUpTo(S, n) == UNION {[1..m -> S] : m \in 0..n}

----------------------------------------------------------------------------
(* schema.Table and schema.TableColumn *)

Column(name, dtype) == [name |-> name, dtype |-> dtype]
Table(name, columns) == [name |-> name, columns |-> columns]

Columns ==
    { Column(<<"id">>, Some(<<"INTEGER">>)),
      Column(<<"amount">>, None),
      Column(<<"note">>, Some(<<>>)) }

\* repr of a str, of an Optional str, of a column, of a table; str of a list
ReprStr(s) == <<"'">> \o s \o <<"'">>
ReprOpt(x) == IF x.some THEN ReprStr(x.val) ELSE <<"None">>
ReprColumn(c) ==
    <<"TableColumn(name=">> \o ReprStr(c.name) \o <<", dtype=">> \o ReprOpt(c.dtype) \o <<")">>
ReprList(items) == <<"[">> \o join(<<", ">>, items) \o <<"]">>
ReprTable(t) ==
    <<"Table(name=">> \o ReprStr(t.name) \o <<", columns=">>
    \o (IF t.columns.some
        THEN ReprList([i \in 1..Len(t.columns.val) |-> ReprColumn(t.columns.val[i])])
        ELSE <<"None">>)
    \o <<")">>
str(tables) == ReprList([i \in 1..Len(tables) |-> ReprTable(tables[i])])

----------------------------------------------------------------------------
(* The classes of prompt_formatters.py *)

Bases ==
    [ RajkumarFormatter |-> "object",
      DuckDBFormatter |-> "RajkumarFormatter",
      DuckDBInstFormatter |-> "RajkumarFormatter",
      DuckDBInstFormatterLlamaShort |-> "RajkumarFormatter",
      DuckDBInstFormatterLlamaBasic |-> "RajkumarFormatter",
      DuckDBInstFormatterLlamaSyntax |-> "RajkumarFormatter",
      DuckDBInstFormatterGraniteShort |-> "RajkumarFormatter",
      DuckDBInstFormatterLlama |-> "RajkumarFormatter",
      DuckDBInstFormatterGranite |-> "RajkumarFormatter",
      DuckDBInstFormatterPhi |-> "RajkumarFormatter",
      DuckDBInstFormatterGPTmini |-> "RajkumarFormatter",
      DuckDBInstFormatterPhiAzure |-> "RajkumarFormatter",
      DuckDBInstNoShorthandFormatter |-> "DuckDBInstFormatter",
      DuckDBChat |-> "object" ]

\* the names the module prompt_formatters defines
ModuleNames == DOMAIN Bases

AllMethods ==
    { "format_table", "format_all_tables", "format_retrieved_context",
      "format_prompt", "format_model_output", "format_gold_output" }

\* the methods and attributes each class body defines itself
Own ==
    [ c \in ModuleNames |->
        CASE c \in {"RajkumarFormatter", "DuckDBChat"} -> AllMethods \cup {"_cache"}
          [] c = "DuckDBFormatter" -> {"format_prompt"}
          [] c = "DuckDBInstNoShorthandFormatter" -> {}
          [] OTHER -> {"format_retrieved_context", "format_prompt"} ]

\* attribute lookup along the bases: the class whose body supplies attr for cls
RECURSIVE Resolve(_, _)
Resolve(cls, attr) == IF attr \in Own[cls] THEN cls ELSE Resolve(Bases[cls], attr)

\* the classes derived from RajkumarFormatter, itself included
BaseFamily == {c \in ModuleNames : Resolve(c, "_cache") = "RajkumarFormatter"}

----------------------------------------------------------------------------
(* format_table *)

\* one entry of table_fmt
column_fmt_raw_dtype(col) == <<"    ">> \o col.name \o <<" ">> \o col.dtype.val
column_fmt(col) == <<"    ">> \o col.name \o <<" ">> \o Or(col.dtype, <<"any">>)

create_tbl_joined_with_comma_space(name, table_fmt) ==
    IF table_fmt # <<>>
    THEN <<"CREATE TABLE ">> \o name \o <<" (\n">> \o join(<<", ">>, table_fmt) \o <<"\n)">>
    ELSE <<"CREATE TABLE ">> \o name
create_tbl(name, table_fmt) ==
    IF table_fmt # <<>>
    THEN <<"CREATE TABLE ">> \o name \o <<" (\n">> \o join(<<",\n">>, table_fmt) \o <<"\n)">>
    ELSE <<"CREATE TABLE ">> \o name

format_table(table) ==
    LET columns == Or(table.columns, <<>>)
        table_fmt == [i \in 1..Len(columns) |-> column_fmt(columns[i])]
    IN  create_tbl(table.name, table_fmt)

DuckDBChat_create_tbl(name, table_fmt) ==
    IF table_fmt # <<>>
    THEN <<"CREATE TABLE ">> \o name \o <<" (\n">> \o join(<<",\n">>, table_fmt) \o <<"\n)">>
    ELSE <<"CREATE TABLE ">> \o name

DuckDBChat_format_table(table) ==
    LET columns == Or(table.columns, <<>>)
        table_fmt ==
            [i \in 1..Len(columns) |->
                <<"    ">> \o columns[i].name \o <<" ">> \o Or(columns[i].dtype, <<"any">>)]
    IN  DuckDBChat_create_tbl(table.name, table_fmt)

\* cls.format_table(table)
cls_format_table(cls, table) ==
    IF Resolve(cls, "format_table") = "DuckDBChat"
    THEN DuckDBChat_format_table(table)
    ELSE format_table(table)

----------------------------------------------------------------------------
(* format_retrieved_context *)

\* the comment block, left out altogether for an empty context list
RajkumarFormatter_format_retrieved_context_or_nothing(context) ==
    IF context = <<>> THEN <<>>
    ELSE <<"\n\n/*\nHere is additional documentation about DuckDB that could be useful.\n--------\n">>
         \o join(<<"\n--------\n">>, context) \o <<"\n--------\n*/">>

RajkumarFormatter_format_retrieved_context(context) ==
    LET context_str == join(<<"\n--------\n">>, context)
    IN  <<"\n\n/*\nHere is additional documentation about DuckDB that could be useful.\n--------\n">>
        \o context_str \o <<"\n--------\n*/">>

\* the same body in DuckDBInstFormatter and in each DuckDBInstFormatter<Model> class
DuckDBInstFormatter_format_retrieved_context(context) ==
    LET context_str == join(<<"\n--------\n">>, context)
    IN  <<"\n### Documentation:\n">> \o context_str \o <<"\n">>

DuckDBChat_format_retrieved_context(context) ==
    LET context_str == join(<<"\n--------\n">>, context)
    IN  <<"\n\nHere is additional documentation about DuckDB that could be useful.\n--------\n">>
        \o context_str \o <<"\n--------\n">>

\* cls.format_retrieved_context(context)
format_retrieved_context(cls, context) ==
    LET owner == Resolve(cls, "format_retrieved_context")
    IN  CASE owner = "RajkumarFormatter" -> RajkumarFormatter_format_retrieved_context(context)
          [] owner = "DuckDBChat" -> DuckDBChat_format_retrieved_context(context)
          [] OTHER -> DuckDBInstFormatter_format_retrieved_context(context)

----------------------------------------------------------------------------
(* format_prompt of the flat-text classes *)

\* str.format with keyword arguments: a piece "{name}" is a replacement field, "{{" and "}}"
\* are the escaped braces, every other piece is literal text
RECURSIVE format(_, _)
format(template, kwargs) ==
    IF template = <<>> THEN <<>>
    ELSE LET piece == Head(template)
             text == CASE piece \in DOMAIN kwargs -> kwargs[piece]
                       [] piece = "{{" -> <<"{">>
                       [] piece = "}}" -> <<"}">>
                       [] OTHER -> <<piece>>
         IN  text \o format(Tail(template), kwargs)

\* The literal text of the long templates is abridged inside a piece, "..." standing
\* for the text left out; the replacement fields and the escaped braces are all there.
PROMPT_TEMPLATE ==
    [ DuckDBInstFormatter |->
        << "### Instruction:\n", "{instruction}", "\n\n### Input:\n", "{input}", "{context}",
           "\n### Question:\n", "{question}",
           "\n\n### Response (use duckdb shorthand if possible):\n" >>,
      DuckDBInstNoShorthandFormatter |->
        << "### Instruction:\n", "{instruction}", "\n\n### Input:\n", "{input}", "{context}",
           "\n### Question:\n", "{question}", "\n\n### Response:\n" >>,
      DuckDBInstFormatterLlamaShort |->
        << "<|begin_of_text|><|start_header_id|>system<|end_header_id|>...Struct: ", "{{",
           "'a': 1, 'b': 'text'", "}}", " AS my_struct;...will run on:\n<fence>sql\n", "{schema}",
           "\n<fence>\n\nQuestion:\n...the user provided:\n", "{question}",
           "\n\nTask:\n...<|start_header_id|>assistant<|end_header_id|>\n\n<fence>sql\n" >>,
      DuckDBInstFormatterLlamaBasic |->
        << "<|begin_of_text|><|start_header_id|>system<|end_header_id|>...will run on:\n<fence>sql\n",
           "{schema}", "\n<fence>\n\nQuestion:\n...the user provided:\n", "{question}",
           "\n\nTask:\n...<|start_header_id|>assistant<|end_header_id|>\n\n<fence>sql\n" >>,
      DuckDBInstFormatterLlamaSyntax |->
        << "<|begin_of_text|><|start_header_id|>system<|end_header_id|>...Struct: ", "{{",
           "'a': 1, 'b': 'text'", "}}", " AS my_struct;...will run on:\n<fence>sql\n", "{schema}",
           "\n<fence>\n\nQuestion:\n...the user provided:\n", "{question}",
           "\n\nTask:\n...<|start_header_id|>assistant<|end_header_id|>\n\n<fence>sql\n" >>,
      DuckDBInstFormatterGraniteShort |->
        << "System:\nYour task is to generate valid DuckDB SQL...Struct: ", "{{",
           "'a': 1, 'b': 'text'", "}}", " AS my_struct;...will run on:\n", "{schema}",
           "\n\nQuestion:\n...the user provided:\n", "{question}",
           "\n\nWrite a DuckDB SQL query for the given question!\n\nAnswer:\n<fence>\n" >>,
      DuckDBInstFormatterLlama |->
        << "<|begin_of_text|>\n\nYour task is to generate valid DuckDB SQL...AS my_list, ", "{{",
           "'a': 1, 'b': 'text'", "}}", " AS my_struct, MAP(...will run on:\n", "{schema}",
           "\n\nQuestion:\n...the user provided:\n", "{question}",
           "\n\nTask:\n...Here is the valid DuckDB SQL query:\n<fence>\n" >>,
      DuckDBInstFormatterGranite |->
        << "System:\n\nYour task is to generate valid DuckDB SQL...AS my_list, ", "{{",
           "'a': 1, 'b': 'text'", "}}", " AS my_struct, MAP(...will run on:\n", "{schema}",
           "\n\nQuestion:\n...the user provided:\n", "{question}",
           "\n\nPlease write a DuckDB SQL query...\n\nAnswer:\n<fence>\n" >>,
      DuckDBInstFormatterPhi |->
        << "<|endoftext|><|user|>\nYour task is to generate valid DuckDB SQL...Struct: ", "{{",
           "'a': 1, 'b': 'text'", "}}", " AS my_struct;...will run on:\n", "{schema}",
           "\n\nQuestion:\n...the user provided:\n", "{question}",
           "\n\nWrite a DuckDB SQL query for the given question!<|end|>\n<|assistant|>\n<fence>sql\n" >>,
      DuckDBInstFormatterGPTmini |->
        << "Schema:\n<fence>sql\n", "{schema}", "\n<fence>\n\nQuestion:\n", "{question}",
           "\n\nWrite a valid DuckDB SQL query to answer the question!\n" >>,
      DuckDBInstFormatterPhiAzure |->
        << "Your task is to generate valid DuckDB SQL...will run on:\n", "{schema}",
           "\n\nQuestion:\nHere is the question or an instruction the user provided:\n",
           "{question}", "\n\nWrite a DuckDB SQL query for the given question!\n" >> ]

INSTRUCTION_TEMPLATE ==
    << "Your task is to generate valid duckdb SQL to answer the following question",
       "{has_schema}" >>

RajkumarFormatter_format_prompt(instruction, table_text, context_text) ==
    table_text
    \o <<"\n\n\n-- Using valid DuckDB SQL, answer the following question for the tables provided above.">>
    \o context_text \o <<"\n\n-- ">> \o instruction \o <<"\n">>

DuckDBFormatter_format_prompt(instruction, table_text, context_text) ==
    table_text
    \o <<"\n\n\n-- Using valid DuckDB SQL, answer the following question for the tables provided above.">>
    \o context_text \o <<"\n\n-- ">> \o instruction \o <<"\n<fence>sql\n">>

\* format_prompt with the has_schema clause of a schema, whatever table_text is
DuckDBInstFormatter_format_prompt_schema_always(cls, instruction, table_text, context_text) ==
    LET input ==
            IF table_text # <<>>
            THEN format(<<"Here is the database schema that the SQL query will run on:\n",
                          "{schema}", "\n">>,
                        [x \in {"{schema}"} |-> table_text])
            ELSE <<>>
        has_schema == <<", given a duckdb database schema.">>
    IN  format(PROMPT_TEMPLATE[cls],
               [x \in {"{instruction}", "{context}", "{input}", "{question}"} |->
                   CASE x = "{instruction}" ->
                            format(INSTRUCTION_TEMPLATE, [y \in {"{has_schema}"} |-> has_schema])
                     [] x = "{context}" -> context_text
                     [] x = "{input}" -> input
                     [] x = "{question}" -> instruction])

\* DuckDBInstFormatter.format_prompt, run for cls (itself or DuckDBInstNoShorthandFormatter)
DuckDBInstFormatter_format_prompt(cls, instruction, table_text, context_text) ==
    LET input ==
            IF table_text # <<>>
            THEN format(<<"Here is the database schema that the SQL query will run on:\n",
                          "{schema}", "\n">>,
                        [x \in {"{schema}"} |-> table_text])
            ELSE <<>>
        has_schema ==
            IF table_text = <<>> THEN <<".">> ELSE <<", given a duckdb database schema.">>
    IN  format(PROMPT_TEMPLATE[cls],
               [x \in {"{instruction}", "{context}", "{input}", "{question}"} |->
                   CASE x = "{instruction}" ->
                            format(INSTRUCTION_TEMPLATE, [y \in {"{has_schema}"} |-> has_schema])
                     [] x = "{context}" -> context_text
                     [] x = "{input}" -> input
                     [] x = "{question}" -> instruction])

\* the format_prompt each DuckDBInstFormatter<Model> class defines, word for word the same
DuckDBInstFormatterModel_format_prompt(cls, instruction, table_text, context_text) ==
    format(PROMPT_TEMPLATE[cls],
           [x \in {"{schema}", "{question}"} |->
               IF x = "{schema}" THEN table_text ELSE instruction])

\* cls.format_prompt(instruction, table_text, context_text), cls of the base family
format_prompt(cls, instruction, table_text, context_text) ==
    LET owner == Resolve(cls, "format_prompt")
    IN  CASE owner = "RajkumarFormatter" ->
                 RajkumarFormatter_format_prompt(instruction, table_text, context_text)
          [] owner = "DuckDBFormatter" ->
                 DuckDBFormatter_format_prompt(instruction, table_text, context_text)
          [] owner = "DuckDBInstFormatter" ->
                 DuckDBInstFormatter_format_prompt(cls, instruction, table_text, context_text)
          [] OTHER ->
                 DuckDBInstFormatterModel_format_prompt(cls, instruction, table_text, context_text)

----------------------------------------------------------------------------
(* format_model_output and format_gold_output *)

\* the four substrings removed, in the order of the replace calls
FenceSql == <<Tick, Tick, Tick, "sql", "\n">>
FenceDuckdb == <<Tick, Tick, Tick, "duckdb", "\n">>
FenceNewline == <<Tick, Tick, Tick, "\n">>
Fence == <<Tick, Tick, Tick>>

\* the chain cut before its last replace call
clean_sql_of_without_last_replace(output_sql) ==
    strip(replace(replace(replace(output_sql, FenceSql, <<>>),
                          FenceDuckdb, <<>>),
                  FenceNewline, <<>>))

\* the chain of replace calls and the strip
clean_sql_of(output_sql) ==
    strip(replace(replace(replace(replace(output_sql, FenceSql, <<>>),
                                  FenceDuckdb, <<>>),
                          FenceNewline, <<>>),
                  Fence, <<>>))

\* what line 75 would do were its value assigned
truncated_at_terminator(clean_sql) ==
    IF find(clean_sql, <<";">>) # -1
    THEN strip(SubSeq(clean_sql, 1, find(clean_sql, <<";">>)))
    ELSE clean_sql
\* line 75 takes the slice of clean_sql before the first terminator, strips it, and drops the value
after_find(clean_sql) ==
    IF find(clean_sql, <<";">>) # -1
    THEN LET discarded == strip(SubSeq(clean_sql, 1, find(clean_sql, <<";">>)))
         IN  clean_sql
    ELSE clean_sql

RajkumarFormatter_format_model_output(output_sql, prompt) ==
    LET clean_sql == after_find(clean_sql_of(output_sql))
    IN  IF ~endswith(clean_sql, <<";">>) THEN clean_sql \o <<";">> ELSE clean_sql

\* the chat output put through the cleaning of the base family
DuckDBChat_format_model_output_cleaned(output_sql, prompt) ==
    RajkumarFormatter_format_model_output(output_sql, prompt)
DuckDBChat_format_model_output(output_sql, prompt) == output_sql

\* cls.format_model_output(output_sql, prompt)
format_model_output(cls, output_sql, prompt) ==
    IF Resolve(cls, "format_model_output") = "DuckDBChat"
    THEN DuckDBChat_format_model_output(output_sql, prompt)
    ELSE RajkumarFormatter_format_model_output(output_sql, prompt)

\* the gold query with the blanks at its ends removed
format_gold_output_stripped(output_sql) == strip(output_sql)
\* format_gold_output, the same in RajkumarFormatter and DuckDBChat
format_gold_output(output_sql) == output_sql

----------------------------------------------------------------------------
(* The registry of constants.py *)

\* the names constants.py imports from prompt_formatters
ImportedNames ==
    { "DuckDBFormatter", "MotherDuckFormatter", "DuckDBInstFormatter",
      "DuckDBInstNoShorthandFormatter", "RajkumarFormatter", "DuckDBChat",
      "DuckDBInstFormatterLlamaShort", "DuckDBInstFormatterGraniteShort",
      "DuckDBInstFormatterLlama", "DuckDBInstFormatterLlamaBasic",
      "DuckDBInstFormatterGranite", "DuckDBInstFormatterPhi",
      "DuckDBInstFormatterGPTmini", "DuckDBInstFormatterPhiAzure",
      "DuckDBInstFormatterLlamaSyntax" }

PROMPT_FORMATTERS ==
    [ rajkumar |-> "RajkumarFormatter",
      duckdb |-> "DuckDBFormatter",
      motherduck |-> "MotherDuckFormatter",
      duckdbinst |-> "DuckDBInstFormatter",
      duckdbinstllamashort |-> "DuckDBInstFormatterLlamaShort",
      duckdbinstgraniteshort |-> "DuckDBInstFormatterGraniteShort",
      duckdbinstllama |-> "DuckDBInstFormatterLlama",
      duckdbinstgranite |-> "DuckDBInstFormatterGranite",
      duckdbinstnoshort |-> "DuckDBInstNoShorthandFormatter",
      duckdbchat |-> "DuckDBChat",
      duckdbinstphi |-> "DuckDBInstFormatterPhi",
      duckdbinstgptmini |-> "DuckDBInstFormatterPhi",
      duckdbinstphiazure |-> "DuckDBInstFormatterPhiAzure",
      duckdbinstllamabasic |-> "DuckDBInstFormatterLlamaBasic",
      duckdbinstllamasyntax |-> "DuckDBInstFormatterLlamaSyntax" ]

\* from prompt_formatters import (names): every name must be one the module defines
from_import(names) == IF names \subseteq ModuleNames THEN "loaded" ELSE "ImportError"

----------------------------------------------------------------------------
(* The calls of the driver *)

NoCall ==
    [op |-> "none", cls |-> "none", args |-> <<>>, status |-> "idle", result |-> <<>>,
     branch |-> ""]
Pending(op, cls, args) ==
    [op |-> op, cls |-> cls, args |-> args, status |-> "pending", result |-> <<>>,
     branch |-> ""]
Returned(c, value) == [c EXCEPT !.status = "done", !.result = value]
Raised(c, exception) == [c EXCEPT !.status = "raised", !.result = exception]

Handling(op) == call.status = "pending" /\ call.op = op

EmptyDict == [k \in {} |-> <<>>]

\* no concurrent caller
NoThreads == <<>>

\* the Manifest service before any use: clients constructed so far, and, of the last
\* DuckDBChat.format_all_tables call, the number of run calls, whether run failed, and
\* what it returned or raised
NoManifest == [constructed |-> 0, runs |-> 0, failed |-> FALSE, last |-> <<>>]

\* d[key] = value
setitem(d, key, value) ==
    [k \in DOMAIN d \cup {key} |-> IF k = key THEN value ELSE d[k]]

\* random.shuffle(list): every order of the list can come out
shuffle(list) ==
    { [i \in 1..Len(list) |-> list[p[i]]] : p \in Permutations(1..Len(list)) }

----------------------------------------------------------------------------
(* format_all_tables of the base family *)

\* table_texts = [cls.format_table(table) for table in tables]
table_texts_without_last(cls, tables) ==
    [i \in 1..(Len(tables) - 1) |-> cls_format_table(cls, tables[i])]
table_texts_of(cls, tables) == [i \in 1..Len(tables) |-> cls_format_table(cls, tables[i])]

\* a key that leaves the instruction out
cache_key_without_instruction(instruction, tables) == <<"tables", <<>>, str(tables)>>
cache_key(instruction, tables) == <<"tables", instruction, str(tables)>>

\* cls._cache: no derived class defines _cache, so for every class of the base family
\* the attribute is the one dict of RajkumarFormatter
own_cache_per_class == IF call.cls = "RajkumarFormatter" THEN _cache ELSE EmptyDict
cls_cache == _cache

\* key in cls._cache
never_in_cache(key) == FALSE
in_cache(key) == key \in DOMAIN cls_cache

\* cls._cache[key] = table_texts
store_alone(key, table_texts) == setitem(EmptyDict, key, table_texts)
store(key, table_texts) == setitem(_cache, key, table_texts)

format_all_tables ==
    /\ Handling("format_all_tables")
    /\ call.cls \in BaseFamily
    /\ LET tables == call.args[1]
           instruction == call.args[2]
           table_texts == table_texts_of(call.cls, tables)
           key == cache_key(instruction, tables)
       IN  IF ~in_cache(key)
           THEN \E shuffled \in shuffle(table_texts) :
                    /\ _cache' = store(key, shuffled)
                    /\ call' = [Returned(call, shuffled) EXCEPT !.branch = "miss"]
                    /\ returns' = returns \cup {<<key, shuffled>>}
           ELSE /\ call' = [Returned(call, _cache[key]) EXCEPT !.branch = "hit"]
                /\ returns' = returns \cup {<<key, _cache[key]>>}
                /\ UNCHANGED _cache
    /\ UNCHANGED <<registry, model, manifest, threads>>

----------------------------------------------------------------------------
(* format_all_tables and format_prompt of DuckDBChat *)

\* one message of a conversation: {"role": ..., "content": ...}
Message(role, content) == [role |-> role, content |-> content]
Roles == {"system", "user", "assistant"}

\* Manifest(engine=..., client_name=..., cache_name=..., cache_connection=...): a client
\* comes back, or the constructor raises
Manifest ==
    { [raised |-> FALSE, value |-> <<"client">>],
      [raised |-> TRUE, value |-> <<"ManifestError">>] }

\* cls.model.run(messages, temperature=0): the service answers with a summary or raises
Summaries == {<<"summary1">>, <<"summary2">>}
model_run(messages) ==
    {[raised |-> FALSE, value |-> s] : s \in Summaries}
    \cup {[raised |-> TRUE, value |-> <<"ServiceError">>]}

\* not cls.model
no_client_always == TRUE
no_client == model = None

\* the two messages, the tables in the order the memo table of the base family holds
\* for the arguments of the call, if it holds one
summary_messages_from_memo(tables) ==
    LET key == cache_key(call.args[2], tables)
        table_texts == IF key \in DOMAIN _cache THEN _cache[key]
                       ELSE [i \in 1..Len(tables) |-> DuckDBChat_format_table(tables[i])]
        full_schema == join(<<"\n\n">>, table_texts)
        prompt == <<"SQL schema of my database:\n">> \o full_schema
                  \o <<"\nExplain in a few sentences what the data is about:\n        ">>
    IN  << Message("system",
                   <<"You are a helpful assistant that can generate an human redable summary of database content based on the schema.">>),
           Message("user", prompt) >>

\* the two messages sent to the service
summary_messages(tables) ==
    LET table_texts == [i \in 1..Len(tables) |-> DuckDBChat_format_table(tables[i])]
        full_schema == join(<<"\n\n">>, table_texts)
        prompt == <<"SQL schema of my database:\n">> \o full_schema
                  \o <<"\nExplain in a few sentences what the data is about:\n        ">>
    IN  << Message("system",
                   <<"You are a helpful assistant that can generate an human redable summary of database content based on the schema.">>),
           Message("user", prompt) >>

\* explanation = cls.model.run(...): the one invocation of a call, with its outcome
summary_call_retried(messages) ==
    {[outcome |-> o, runs |-> 1] : o \in {x \in model_run(messages) : ~x.raised}}
    \cup {[outcome |-> o, runs |-> 2] : o \in model_run(messages)}
summary_call(messages) == {[outcome |-> o, runs |-> 1] : o \in model_run(messages)}

\* messages[1:]
whole(messages) == messages
history(messages) == Tail(messages)

\* what the call ends in after run: nothing catches an exception of run
after_run(c, messages, outcome) ==
    IF outcome.raised
    THEN Raised(c, outcome.value)
    ELSE Returned(c, history(messages \o <<Message("assistant", outcome.value)>>))

DuckDBChat_format_all_tables ==
    /\ Handling("format_all_tables")
    /\ call.cls = "DuckDBChat"
    /\ LET tables == call.args[1]
           messages == summary_messages(tables)
       IN  \E made \in (IF no_client THEN Manifest
                        ELSE {[raised |-> FALSE, value |-> model.val]}) :
              IF made.raised
              THEN /\ call' = Raised(call, made.value)
                   /\ manifest' = [manifest EXCEPT !.runs = 0, !.failed = FALSE, !.last = <<>>]
                   /\ UNCHANGED model
              ELSE \E ran \in summary_call(messages) :
                      /\ model' = Some(made.value)
                      /\ manifest' =
                             [constructed |-> manifest.constructed + (IF no_client THEN 1 ELSE 0),
                              runs |-> ran.runs,
                              failed |-> ran.outcome.raised,
                              last |-> ran.outcome.value]
                      /\ call' = [after_run(call, messages, ran.outcome)
                                    EXCEPT !.branch = IF no_client THEN "created" ELSE "reused"]
    /\ UNCHANGED <<_cache, returns, registry, threads>>

DuckDBChat_format_prompt(instruction, table_text, context_text) ==
    LET prompt ==
            <<"Now output a single SQL query without any explanation and do not add anything \nto the query that was not part of the question, also do not use markdown. Make sure to only \nuse information provided in the prompt, or tables and columns from the schema above and write a query to answer the question.">>
            \o context_text \o <<"\n\nMy quesiton is \n", Tick>> \o instruction
            \o <<Tick, "\n\nGenerate the DuckDB specific SQL query:">>
    IN  << Message("system",
                   <<"You are a helpful assistant that can generate DuckDB sql queries, which is a superset of Postgresql, based on the user input. You do not respond with any human readable text, only SQL code.">>) >>
        \o table_text
        \o << Message("user", prompt) >>

DuckDBChat_FormatPrompt ==
    /\ Handling("format_prompt")
    /\ call.cls = "DuckDBChat"
    /\ call' = Returned(call, DuckDBChat_format_prompt(call.args[1], call.args[2], call.args[3]))
    /\ UNCHANGED <<_cache, returns, registry, model, manifest, threads>>

----------------------------------------------------------------------------
(* The other operations of the interface *)

FormatTable ==
    /\ Handling("format_table")
    /\ call' = Returned(call, cls_format_table(call.cls, call.args[1]))
    /\ UNCHANGED <<_cache, returns, registry, model, manifest, threads>>

FormatRetrievedContext ==
    /\ Handling("format_retrieved_context")
    /\ call' = Returned(call, format_retrieved_context(call.cls, call.args[1]))
    /\ UNCHANGED <<_cache, returns, registry, model, manifest, threads>>

FormatPrompt ==
    /\ Handling("format_prompt")
    /\ call.cls \in BaseFamily
    /\ call' = Returned(call, format_prompt(call.cls, call.args[1], call.args[2], call.args[3]))
    /\ UNCHANGED <<_cache, returns, registry, model, manifest, threads>>

FormatModelOutput ==
    /\ Handling("format_model_output")
    /\ call' = Returned(call, format_model_output(call.cls, call.args[1], call.args[2]))
    /\ UNCHANGED <<_cache, returns, registry, model, manifest, threads>>

FormatGoldOutput ==
    /\ Handling("format_gold_output")
    /\ call' = Returned(call, format_gold_output(call.args[1]))
    /\ UNCHANGED <<_cache, returns, registry, model, manifest, threads>>

\* the import statement of constants.py, run once when the driver starts
ImportConstants ==
    /\ registry = "unloaded"
    /\ registry' = from_import(ImportedNames)
    /\ UNCHANGED <<_cache, call, returns, model, manifest, threads>>

\* PROMPT_FORMATTERS[key] in the driver; the name is bound only if the import succeeded
Lookup ==
    /\ Handling("lookup")
    /\ registry # "unloaded"
    /\ LET key == call.args[1]
       IN  call' = IF registry = "ImportError" THEN Raised(call, "ImportError")
                   ELSE IF key \in DOMAIN PROMPT_FORMATTERS
                        THEN Returned(call, PROMPT_FORMATTERS[key])
                        ELSE Raised(call, "KeyError")
    /\ UNCHANGED <<_cache, returns, registry, model, manifest, threads>>

----------------------------------------------------------------------------
(* Inputs *)

Orders == Table(<<"orders">>, Some(<<Column(<<"id">>, Some(<<"INTEGER">>)),
                                     Column(<<"amount">>, Some(<<"DOUBLE">>))>>))
Bare == Table(<<"t">>, None)
Empty == Table(<<"e">>, Some(<<>>))
Untyped == Table(<<"u">>, Some(<<Column(<<"amount">>, None)>>))

Instructions == {<<"q1">>, <<"q2">>}

\* table lists handed to format_all_tables
TableLists ==
    { <<>>, <<Orders, Bare>>, <<Bare, Bare>>, <<Untyped, Bare, Empty>> }

\* tables handed to format_table
TableNames == {<<"orders">>, <<"t">>}
ColumnLists == {None} \cup {Some(cols) : cols \in SeqsUpTo(Columns \cup {Column(<<"x">>, Some(<<"DOUBLE">>))}, MaxColumns)}
Tables == {Table(n, cols) : n \in TableNames, cols \in ColumnLists}

Docs == {<<"doc1">>, <<"doc2">>}
Contexts == SeqsUpTo(Docs, MaxContext)

\* model outputs: a body, bare or between an opening and a closing fence
BodyChars == {Tick, "sql", "\n", ";", " ", "x"}
Bodies == SeqsUpTo(BodyChars, MaxBody)
Openers == {FenceSql, FenceDuckdb, FenceNewline}
Closers == {<<"\n">> \o Fence, Fence}
Outputs ==
    Bodies \cup {open \o body \o close : open \in Openers, body \in Bodies, close \in Closers}
           \cup {open \o body : open \in Openers, body \in Bodies}
\* model outputs in which removing one fence brings the backticks around it together
NestedOutputs ==
    { <<Tick, Tick, Tick, Tick, Tick, "\n", Tick>>,
      <<Tick, Tick, Tick, Tick, Tick, "sql", "\n", Tick, "x">>,
      <<Tick, Tick, Tick, Tick, "duckdb", "\n", Tick, Tick, "x", ";", " ">>,
      <<Tick, Tick, Tick, Tick, "x">>,
      <<"x", Tick, Tick, Tick, Tick, Tick, Tick, ";", "\n">> }
Prompts == {<<"p1">>, <<"p2">>}

\* gold queries: plain, empty, with blanks around and a terminator, between fences
GoldOutputs ==
    { <<"x">>, <<>>, <<" ", "x", ";", "\n">>, FenceSql \o <<"x">> \o <<"\n">> \o Fence }

\* keys the driver looks up: two of the registry, one that is not in it
RegistryKeys == {"rajkumar", "duckdbinstgptmini", "nosuchformat"}

\* the calls the driver makes while the memo table fills
MemoClasses == {"RajkumarFormatter", "DuckDBInstFormatter"}
DriverRequests ==
    {Pending("format_all_tables", c, <<t, i>>) :
        c \in MemoClasses, t \in TableLists, i \in Instructions}
    \cup {Pending("format_table", c, <<t>>) : c \in {"RajkumarFormatter"}, t \in {Orders}}
    \cup {Pending("format_retrieved_context", c, <<x>>) :
            c \in {"DuckDBInstFormatter"}, x \in {<<<<"doc1">>>>}}
    \cup {Pending("format_prompt", c, <<<<"q1">>, format_table(Bare), <<>>>>) :
            c \in {"DuckDBInstFormatter"}}
    \cup {Pending("format_model_output", c, <<o, <<"p1">>>>) :
            c \in {"RajkumarFormatter"}, o \in {<<"x">>}}
    \cup {Pending("format_gold_output", c, <<o>>) :
            c \in {"RajkumarFormatter", "DuckDBChat"}, o \in GoldOutputs}
    \cup {Pending("lookup", "dict", <<k>>) : k \in RegistryKeys}

----------------------------------------------------------------------------
(* Specifications *)

\* the external driver makes its next call; it asks for a new key only below MaxCache
Request ==
    /\ call.status # "pending"
    /\ \E r \in DriverRequests :
           /\ r.op = "format_all_tables" =>
                  \/ Cardinality(DOMAIN _cache) < MaxCache
                  \/ cache_key(r.args[2], r.args[1]) \in DOMAIN _cache
           /\ call' = r
    /\ UNCHANGED <<_cache, returns, registry, model, manifest, threads>>

Init ==
    /\ _cache = EmptyDict
    /\ call = NoCall
    /\ returns = {}
    /\ registry = "unloaded"
    /\ model = None
    /\ manifest = NoManifest
    /\ threads = NoThreads

Next ==
    \/ Request
    \/ format_all_tables
    \/ FormatTable
    \/ FormatRetrievedContext
    \/ FormatPrompt
    \/ FormatModelOutput
    \/ FormatGoldOutput
    \/ ImportConstants
    \/ Lookup

Spec == Init /\ [][Next]_vars

\* the pure operations, each applied to an input drawn at the start
InitFunctions ==
    /\ _cache = EmptyDict
    /\ \/ \E c \in {"RajkumarFormatter", "DuckDBInstFormatterPhi", "DuckDBChat"}, t \in Tables :
              call = Pending("format_table", c, <<t>>)
       \/ \E c \in ModuleNames, x \in Contexts :
              call = Pending("format_retrieved_context", c, <<x>>)
       \/ \E c \in BaseFamily, i \in Instructions, t \in {<<>>, format_table(Orders)} :
              \E x \in {<<>>, format_retrieved_context(c, <<<<"doc1">>>>)} :
                 call = Pending("format_prompt", c, <<i, t, x>>)
       \/ \E c \in {"RajkumarFormatter", "DuckDBChat"}, o \in Outputs \cup NestedOutputs, p \in Prompts :
              call = Pending("format_model_output", c, <<o, p>>)
       \/ \E c \in {"RajkumarFormatter", "DuckDBChat"}, o \in Bodies :
              call = Pending("format_gold_output", c, <<o>>)
    /\ returns = {}
    /\ registry = "unloaded"
    /\ model = None
    /\ manifest = NoManifest
    /\ threads = NoThreads

NextFunctions ==
    \/ FormatTable
    \/ FormatRetrievedContext
    \/ FormatPrompt
    \/ FormatModelOutput
    \/ FormatGoldOutput

SpecFunctions == InitFunctions /\ [][NextFunctions]_vars

\* the driver of the chat class: it asks for the history of a table list, builds the
\* prompt from the history it got back, and uses the other operations in between
ChatRequest ==
    /\ call.status # "pending"
    /\ \/ \E t \in TableLists, i \in Instructions :
              call' = Pending("format_all_tables", "DuckDBChat", <<t, i>>)
       \/ /\ call.status = "done" /\ call.op = "format_all_tables"
          /\ call.cls = "DuckDBChat"
          /\ \E i \in Instructions :
                 \E x \in {<<>>, DuckDBChat_format_retrieved_context(<<<<"doc1">>>>)} :
                    call' = Pending("format_prompt", "DuckDBChat", <<i, call.result, x>>)
       \/ call' = Pending("format_table", "DuckDBChat", <<Orders>>)
       \/ call' = Pending("format_retrieved_context", "DuckDBChat", <<<<<<"doc1">>>>>>)
       \/ call' = Pending("format_model_output", "DuckDBChat", <<<<"x">>, <<"p1">>>>)
       \/ call' = Pending("format_gold_output", "DuckDBChat", <<<<"x">>>>)
       \/ call' = Pending("format_all_tables", "RajkumarFormatter",
                          <<<<Untyped, Bare, Empty>>, <<"q1">>>>)
    /\ UNCHANGED <<_cache, returns, registry, model, manifest, threads>>

NextChat ==
    \/ ChatRequest
    \/ DuckDBChat_format_all_tables
    \/ format_all_tables
    \/ DuckDBChat_FormatPrompt
    \/ FormatTable
    \/ FormatRetrievedContext
    \/ FormatModelOutput
    \/ FormatGoldOutput

SpecChat == Init /\ [][NextChat]_vars

\* a caller that changes the lists it is handed.  Line 41 stores the list table_texts
\* in the memo table and line 44 returns that same list; line 43 binds table_texts to
\* the stored list and line 44 returns it.  So the list a call returned and the entry
\* of its key are one object, and a change made through one shows through the other.
reversed(list) == [i \in 1..Len(list) |-> list[Len(list) + 1 - i]]
CallerChanges(list, original) ==
    {reversed(list)}
    \cup (IF list # <<>> THEN {SubSeq(list, 1, Len(list) - 1)} ELSE {})
    \cup (IF Len(list) < original + MaxAppended THEN {Append(list, <<"junk">>)} ELSE {})

CallerMutates ==
    /\ call.status = "done"
    /\ call.op = "format_all_tables"
    /\ call.cls \in BaseFamily
    /\ LET key == cache_key(call.args[2], call.args[1])
       IN  \E changed \in CallerChanges(call.result, Len(call.args[1])) :
              /\ <<key, call.result>> \in returns    \* one change to a list as handed out
              /\ call' = [call EXCEPT !.result = changed]
              /\ _cache' = [_cache EXCEPT ![key] = changed]
    /\ UNCHANGED <<returns, registry, model, manifest, threads>>

CallerRequest ==
    /\ call.status # "pending"
    /\ Cardinality(returns) < MaxReturns
    /\ \E t \in {<<Bare, Bare>>, <<Untyped, Bare, Empty>>}, i \in Instructions :
           call' = Pending("format_all_tables", "RajkumarFormatter", <<t, i>>)
    /\ UNCHANGED <<_cache, returns, registry, model, manifest, threads>>

NextCaller ==
    \/ CallerRequest
    \/ format_all_tables
    \/ CallerMutates

SpecCaller == Init /\ [][NextCaller]_vars

\* a driver that switches the variant between calls: it fixes an ordering through
\* RajkumarFormatter and asks for the same instruction and tables through the classes
\* derived from it
SharedRequest ==
    /\ call.status # "pending"
    /\ \E t \in TableLists, i \in Instructions :
           \/ /\ Cardinality(DOMAIN _cache) < MaxCache
              /\ call' = Pending("format_all_tables", "RajkumarFormatter", <<t, i>>)
           \/ /\ cache_key(i, t) \in DOMAIN _cache
              /\ \E c \in BaseFamily : call' = Pending("format_all_tables", c, <<t, i>>)
    /\ UNCHANGED <<_cache, returns, registry, model, manifest, threads>>

NextShared ==
    \/ SharedRequest
    \/ format_all_tables

SpecShared == Init /\ [][NextShared]_vars

\* two callers inside format_all_tables at the same time.  Each runs the lines of the
\* method one at a time on its own locals; the memo table is the one they share.
Threads == {"t1", "t2"}
Idle == [pc |-> "idle", cls |-> "none", key |-> <<>>, table_texts |-> <<>>]

\* lines 37-38: the call is entered, table_texts and key are built
Enter(t) ==
    /\ threads[t].pc \in {"idle", "returned"}
    /\ Cardinality(returns) < MaxReturns
    /\ \E cls \in {"RajkumarFormatter"}, i \in Instructions :
           LET tables == <<Untyped, Bare>>
           IN  threads' = [threads EXCEPT ![t] =
                              [pc |-> "check", cls |-> cls, key |-> cache_key(i, tables),
                               table_texts |-> table_texts_of(cls, tables)]]
    /\ UNCHANGED <<_cache, call, returns, registry, model, manifest>>

\* line 39: if key not in cls._cache
Check(t) ==
    /\ threads[t].pc = "check"
    /\ threads' = [threads EXCEPT ![t].pc =
                      IF ~in_cache(threads[t].key) THEN "shuffle" ELSE "load"]
    /\ UNCHANGED <<_cache, call, returns, registry, model, manifest>>

\* line 40: shuffle(table_texts)
Shuffle(t) ==
    /\ threads[t].pc = "shuffle"
    /\ \E shuffled \in shuffle(threads[t].table_texts) :
           threads' = [threads EXCEPT ![t].pc = "store", ![t].table_texts = shuffled]
    /\ UNCHANGED <<_cache, call, returns, registry, model, manifest>>

\* line 41: cls._cache[key] = table_texts
Store(t) ==
    /\ threads[t].pc = "store"
    /\ _cache' = store(threads[t].key, threads[t].table_texts)
    /\ threads' = [threads EXCEPT ![t].pc = "return"]
    /\ UNCHANGED <<call, returns, registry, model, manifest>>

\* line 43: table_texts = cls._cache[key]
Load(t) ==
    /\ threads[t].pc = "load"
    /\ threads' = [threads EXCEPT ![t].pc = "return",
                                   ![t].table_texts = _cache[threads[t].key]]
    /\ UNCHANGED <<_cache, call, returns, registry, model, manifest>>

\* line 44: return table_texts
Return(t) ==
    /\ threads[t].pc = "return"
    /\ returns' = returns \cup {<<threads[t].key, threads[t].table_texts>>}
    /\ threads' = [threads EXCEPT ![t].pc = "returned"]
    /\ UNCHANGED <<_cache, call, registry, model, manifest>>

InitThreads ==
    /\ _cache = EmptyDict
    /\ call = NoCall
    /\ returns = {}
    /\ registry = "unloaded"
    /\ model = None
    /\ manifest = NoManifest
    /\ threads = [t \in Threads |-> Idle]

NextThreads ==
    \E t \in Threads :
        \/ Enter(t)
        \/ Check(t)
        \/ Shuffle(t)
        \/ Store(t)
        \/ Load(t)
        \/ Return(t)

SpecThreads == InitThreads /\ [][NextThreads]_vars

----------------------------------------------------------------------------
(* Properties *)

Done(op) == call.status = "done" /\ call.op = op

\* the columns of the table of a format_table call
ColumnsOf(t) == IF t.columns.some THEN t.columns.val ELSE <<>>

\* a has the elements of b, each as often as b has it
IsPermutation(a, b) ==
    /\ Len(a) = Len(b)
    /\ \A i \in 1..Len(b) : Count(a, b[i]) = Count(b, b[i])

\* C1: any two format_all_tables calls of the base family with the same key
\* ("tables", instruction, str(tables)) returned the same ordered sequence of rendered
\* tables, whatever order the shuffle of the first call chose.
C1_SameKeySameOrdering ==
    \A a \in returns : \A b \in returns : a[1] = b[1] => a[2] = b[2]

\* a later call found the key in the memo table and returned an ordering that is not
\* the input order
C1_Witness ==
    /\ Done("format_all_tables")
    /\ call.branch = "hit"
    /\ call.result # [i \in 1..Len(call.args[1]) |-> format_table(call.args[1][i])]

\* C2: what format_all_tables returns, from a miss or from a hit, is a permutation of
\* [format_table(t) for t in tables]: the same length, every rendering as often as in
\* the input.
C2_ReturnsPermutation ==
    Done("format_all_tables") =>
        IsPermutation(call.result,
                      [i \in 1..Len(call.args[1]) |-> format_table(call.args[1][i])])

\* a hit returned three tables, the last of the input first
C2_Witness ==
    /\ Done("format_all_tables")
    /\ call.branch = "hit"
    /\ Len(call.result) = 3
    /\ call.result[1] = format_table(call.args[1][3])

\* C3: the memo table changes only in a format_all_tables miss, which adds exactly the
\* entry of its key; a hit leaves it unchanged, no entry is ever overwritten or removed,
\* and no other operation changes it.
C3_MemoFrame ==
    [][ /\ \A k \in DOMAIN _cache : k \in DOMAIN _cache' /\ _cache'[k] = _cache[k]
        /\ _cache' # _cache =>
               /\ Handling("format_all_tables")
               /\ cache_key(call.args[2], call.args[1]) \notin DOMAIN _cache
               /\ DOMAIN _cache' = DOMAIN _cache \cup {cache_key(call.args[2], call.args[1])}
        /\ (Handling("format_all_tables")
              /\ cache_key(call.args[2], call.args[1]) \in DOMAIN _cache) => _cache' = _cache
      ]_vars

\* the memo table holds two entries and the last call, a hit, left both in place
C3_Witness ==
    /\ Cardinality(DOMAIN _cache) = 2
    /\ Done("format_all_tables")
    /\ call.branch = "hit"
    /\ cache_key(call.args[2], call.args[1]) \in DOMAIN _cache

\* an output between an opening fence of one of the three spellings and a closing fence
IsWrapped(output_sql) ==
    \E open \in Openers : \E close \in Closers :
        /\ MatchAt(output_sql, open, 1)
        /\ endswith(output_sql, close)
        /\ Len(output_sql) >= Len(open) + Len(close)

\* C4: format_model_output of the base family, given an output wrapped in one of the
\* three fence spellings, returns text with no fence marker in it that ends in exactly
\* one statement terminator.
C4_WrappedOutputOneTerminator ==
    (Done("format_model_output") /\ call.cls \in BaseFamily /\ IsWrapped(call.args[1])) =>
        /\ ~Contains(call.result, Fence)
        /\ endswith(call.result, <<";">>)
        /\ ~endswith(call.result, <<";", ";">>)

\* C5: base format_model_output returns clean if clean ends with the terminator and
\* clean plus the terminator otherwise, clean being the output with the four fence
\* substrings removed in order and then trimmed; what follows the first terminator is
\* kept, and the prompt plays no part.
C5_CleanPlusTerminator ==
    (Done("format_model_output") /\ call.cls \in BaseFamily) =>
        LET removed == replace(replace(replace(replace(call.args[1], FenceSql, <<>>),
                                               FenceDuckdb, <<>>),
                                       FenceNewline, <<>>),
                               Fence, <<>>)
            clean == strip(removed)
        IN  call.result = IF endswith(clean, <<";">>) THEN clean ELSE clean \o <<";">>

\* a fenced output whose result still has text after its first terminator
C5_Witness ==
    /\ Done("format_model_output")
    /\ call.cls \in BaseFamily
    /\ Contains(call.args[1], Fence)
    /\ find(call.result, <<";">>) + 2 < Len(call.result)
    /\ call.result[Len(call.result) - 1] = "x"

\* C6: format_table, base and chat alike, returns CREATE TABLE <name> and nothing more
\* for a table without columns, and otherwise the header, then every column once and in
\* input order as four spaces, name, space, dtype, the columns separated by a comma and
\* a newline, then the closing line.  (Names and dtypes of the inputs are one piece.)
C6_TableLayout ==
    Done("format_table") =>
        LET t == call.args[1]
            r == call.result
            cols == ColumnsOf(t)
            n == Len(cols)
        IN  IF n = 0
            THEN r = <<"CREATE TABLE ", t.name[1]>>
            ELSE /\ Len(r) = 3 + 5 * n
                 /\ r[1] = "CREATE TABLE " /\ r[2] = t.name[1] /\ r[3] = " (\n"
                 /\ \A i \in 1..n :
                        /\ r[5 * i - 1] = "    "
                        /\ r[5 * i] = cols[i].name[1]
                        /\ r[5 * i + 1] = " "
                        /\ r[5 * i + 2] \in
                               {"any"} \cup {cols[i].dtype.val[k] : k \in 1..Len(cols[i].dtype.val)}
                        /\ r[5 * i + 3] = IF i < n THEN ",\n" ELSE "\n)"

\* a class of the base family rendered a table of two columns
C6_Witness ==
    /\ Done("format_table")
    /\ call.cls \in BaseFamily
    /\ Len(ColumnsOf(call.args[1])) = 2

\* C7: format_table does not fail on a column whose dtype is None or empty: it renders
\* that column with the dtype any, and a column with a dtype with that dtype.
C7_MissingDtypeIsAny ==
    (call.op = "format_table" /\ call.status # "pending") =>
        /\ call.status = "done"
        /\ \A i \in 1..Len(ColumnsOf(call.args[1])) :
               LET col == ColumnsOf(call.args[1])[i]
               IN  SubSeq(call.result, 5 * i - 1, 5 * i + 2) =
                       <<"    ", col.name[1], " ",
                         IF col.dtype.some /\ col.dtype.val # <<>>
                         THEN col.dtype.val[1] ELSE "any">>

\* a table with a column of dtype None next to a column of empty dtype was rendered
C7_Witness ==
    /\ Done("format_table")
    /\ \E i, j \in 1..Len(ColumnsOf(call.args[1])) :
           /\ ColumnsOf(call.args[1])[i].dtype = None
           /\ ColumnsOf(call.args[1])[j].dtype = Some(<<>>)

\* C8: once constants.py has been imported the registry is there, and every key of it
\* names a class that prompt_formatters defines.
C8_RegistryResolves ==
    registry # "unloaded" =>
        /\ registry = "loaded"
        /\ \A k \in DOMAIN PROMPT_FORMATTERS : PROMPT_FORMATTERS[k] \in ModuleNames

\* C9: looking up a key that is not in PROMPT_FORMATTERS ends in a lookup error
\* (KeyError) and returns no formatter.
C9_UnknownKeyIsLookupError ==
    (call.op = "lookup" /\ call.status \in {"done", "raised"}
        /\ call.args[1] \notin DOMAIN PROMPT_FORMATTERS) =>
        call.status = "raised" /\ call.result = "KeyError"

\* C10: the prompt of every flat-text class contains the schema text, the instruction
\* and the context text it was given.
C10_PromptHoldsAllThree ==
    (Done("format_prompt") /\ call.cls \in BaseFamily) =>
        /\ Contains(call.result, call.args[2])
        /\ Contains(call.result, call.args[1])
        /\ Contains(call.result, call.args[3])

\* the piece that opens the schema section, and the instruction sentence before its clause
SchemaSection == "Here is the database schema that the SQL query will run on:\n"
TaskSentence == "Your task is to generate valid duckdb SQL to answer the following question"

\* C11: in the prompt of DuckDBInstFormatter and DuckDBInstNoShorthandFormatter the
\* schema section is there exactly when table_text is not empty, followed then by the
\* table text; the instruction sentence ends with the clause about a given schema
\* exactly when the section is there and with a full stop exactly when it is not.
C11_SchemaSectionIffTableText ==
    (Done("format_prompt") /\ Resolve(call.cls, "format_prompt") = "DuckDBInstFormatter") =>
        LET table_text == call.args[2]
            r == call.result
            present == \E i \in 1..Len(r) : r[i] = SchemaSection
        IN  /\ present <=> table_text # <<>>
            /\ present => Contains(r, <<SchemaSection>> \o table_text \o <<"\n">>)
            /\ r[2] = TaskSentence
            /\ r[3] = IF present THEN ", given a duckdb database schema." ELSE "."
            /\ Count(r, TaskSentence) = 1

\* DuckDBInstNoShorthandFormatter built a prompt without table text: no schema section
C11_Witness ==
    /\ Done("format_prompt")
    /\ call.cls = "DuckDBInstNoShorthandFormatter"
    /\ call.args[2] = <<>>
    /\ call.args[3] # <<>>
    /\ call.result[3] = "."

\* the classes by the style of their context wrapper
CodeStyle == {"RajkumarFormatter", "DuckDBFormatter"}
ChatStyle == {"DuckDBChat"}
InstructionStyle == (ModuleNames \ CodeStyle) \ ChatStyle

\* what the wrapper of a class puts before and after the chunks
WrapperOpen(cls) ==
    IF cls \in CodeStyle
    THEN "\n\n/*\nHere is additional documentation about DuckDB that could be useful.\n--------\n"
    ELSE IF cls \in InstructionStyle
         THEN "\n### Documentation:\n"
         ELSE "\n\nHere is additional documentation about DuckDB that could be useful.\n--------\n"
WrapperClose(cls) ==
    IF cls \in CodeStyle THEN "\n--------\n*/"
    ELSE IF cls \in InstructionStyle THEN "\n" ELSE "\n--------\n"

\* C12: format_retrieved_context of every class returns the opening of the wrapper of
\* its style (comment block for the code style, Documentation block for the instruction
\* style), then the chunks in input order with the separator line between each two
\* neighbours and nowhere else, then the closing of the wrapper.  (A chunk of the
\* inputs is one piece.)
C12_ContextWrapped ==
    Done("format_retrieved_context") =>
        LET context == call.args[1]
            r == call.result
            n == Len(context)
        IN  /\ Len(r) = IF n = 0 THEN 2 ELSE 2 * n + 1
            /\ r[1] = WrapperOpen(call.cls)
            /\ r[Len(r)] = WrapperClose(call.cls)
            /\ \A i \in 1..n : r[2 * i] = context[i][1]
            /\ \A i \in 1..(n - 1) : r[2 * i + 1] = "\n--------\n"

\* an instruction-style class that defines the method itself wrapped two distinct chunks
C12_Witness ==
    /\ Done("format_retrieved_context")
    /\ call.cls = "DuckDBInstFormatterGranite"
    /\ Len(call.args[1]) = 2
    /\ call.args[1][1] # call.args[1][2]
    /\ call.result[1] = "\n### Documentation:\n"

\* C13: for an empty context list format_retrieved_context of every class returns a
\* text that is not empty: the opening and the closing of the wrapper of the class with
\* nothing between them.
C13_EmptyContextKeepsWrapper ==
    (Done("format_retrieved_context") /\ call.args[1] = <<>>) =>
        /\ call.result # <<>>
        /\ call.result = <<WrapperOpen(call.cls), WrapperClose(call.cls)>>
        /\ call.cls \in CodeStyle =>
               /\ Contains(call.result, <<"\n\n/*\nHere is additional documentation about DuckDB that could be useful.\n--------\n">>)
               /\ Contains(call.result, <<"\n--------\n*/">>)
        /\ call.cls \in InstructionStyle => Contains(call.result, <<"\n### Documentation:\n">>)

\* a class that inherits the comment block was given an empty context list
C13_Witness ==
    /\ Done("format_retrieved_context")
    /\ call.cls = "DuckDBFormatter"
    /\ call.args[1] = <<>>
    /\ Len(call.result) = 2

\* C14: format_gold_output, of the base family and of the chat class, returns its
\* argument unchanged, and the step that answers the call changes nothing else: not the
\* memo table, not the chat client, not the registry.
C14_GoldOutputIdentity ==
    [][ (Handling("format_gold_output") /\ call' # call) =>
            /\ call' = Returned(call, call.args[1])
            /\ UNCHANGED <<_cache, returns, registry, model, manifest, threads>>
      ]_vars

\* the chat class returned a fenced gold query while the memo table held an entry
C14_Witness ==
    /\ Done("format_gold_output")
    /\ call.cls = "DuckDBChat"
    /\ Contains(call.result, Fence)
    /\ call.result[Len(call.result)] = Tick
    /\ DOMAIN _cache # {}

\* C15: format_model_output of the chat class returns the output it was given, piece for
\* piece: fences stay, blanks at the ends stay, no terminator is added.
C15_ChatOutputVerbatim ==
    (Done("format_model_output") /\ call.cls = "DuckDBChat") =>
        /\ call.result = call.args[1]
        /\ Count(call.result, ";") = Count(call.args[1], ";")
        /\ Count(call.result, Tick) = Count(call.args[1], Tick)

\* the chat class returned a fenced output with blanks around its body and no terminator
C15_Witness ==
    /\ Done("format_model_output")
    /\ call.cls = "DuckDBChat"
    /\ call.args[1] = FenceSql \o <<" ", "x", "\n">> \o Fence
    /\ call.result = FenceSql \o <<" ", "x", "\n">> \o Fence

\* C16: over any sequence of calls the Manifest client is constructed at most once.  It
\* comes into being only in a DuckDBChat.format_all_tables call that found no client;
\* once there, DuckDBChat.model stays the same handle whatever is called, and no other
\* operation constructs a client or touches the handle.
C16_ClientConstructedOnce ==
    [][ /\ manifest'.constructed <= 1
        /\ model # None => model' = model
        /\ manifest'.constructed # manifest.constructed =>
               /\ Handling("format_all_tables") /\ call.cls = "DuckDBChat"
               /\ model = None /\ model' # None
               /\ manifest'.constructed = manifest.constructed + 1
        /\ model' # model => manifest'.constructed # manifest.constructed
      ]_vars

\* a later format_all_tables call found the client of an earlier one and used it
C16_Witness ==
    /\ Done("format_all_tables")
    /\ call.cls = "DuckDBChat"
    /\ call.branch = "reused"
    /\ manifest.constructed = 1
    /\ model # None

\* C17: when the run call of DuckDBChat.format_all_tables fails, the call ends in the
\* exception the service raised and returns no messages, and the service was invoked
\* exactly once for it.
C17_SummaryFailurePropagates ==
    (call.op = "format_all_tables" /\ call.cls = "DuckDBChat"
        /\ call.status # "pending" /\ manifest.failed) =>
        /\ call.status = "raised"
        /\ call.result = manifest.last
        /\ call.result \notin Summaries
        /\ manifest.runs = 1

\* the service failed for a call that used a client constructed by an earlier call
C17_Witness ==
    /\ call.op = "format_all_tables"
    /\ call.cls = "DuckDBChat"
    /\ call.status = "raised"
    /\ call.branch = "reused"
    /\ manifest.failed
    /\ call.result = <<"ServiceError">>

\* the roles of a message sequence, in order
RolesOf(messages) == [i \in 1..Len(messages) |-> messages[i].role]

\* C18: DuckDBChat.format_all_tables returns two messages, a user message holding the
\* rendered tables and an assistant message holding the summary the service returned;
\* format_prompt on that history returns system, user, assistant, user: one system
\* message, the history as it was, and a last user message holding the context text and
\* the instruction.  Every role is system, user or assistant.
C18_ChatMessageSequence ==
    /\ (Done("format_all_tables") /\ call.cls = "DuckDBChat") =>
           /\ RolesOf(call.result) = <<"user", "assistant">>
           /\ \A i \in 1..Len(call.args[1]) :
                  Contains(call.result[1].content, DuckDBChat_format_table(call.args[1][i]))
           /\ call.result[2].content = manifest.last
           /\ call.result[2].content \in Summaries
    /\ (Done("format_prompt") /\ call.cls = "DuckDBChat") =>
           /\ RolesOf(call.result) = <<"system", "user", "assistant", "user">>
           /\ SubSeq(call.result, 2, 3) = call.args[2]
           /\ Contains(call.result[4].content, call.args[1])
           /\ Contains(call.result[4].content, call.args[3])
           /\ \A i \in 1..Len(call.result) : call.result[i].role \in Roles

\* a prompt was built from a history of three tables, with context text
C18_Witness ==
    /\ Done("format_prompt")
    /\ call.cls = "DuckDBChat"
    /\ Len(call.result) = 4
    /\ call.args[3] # <<>>
    /\ Contains(call.result[2].content, DuckDBChat_format_table(Empty))
    /\ call.result[3].content = <<"summary2">>

\* C19: the memo entry of a request is the one of its own instruction and tables: what
\* a call returned is what the table holds under ("tables", its instruction, str of its
\* tables); the same tables asked for under n instructions hold n entries; and every
\* call of one instruction and one table list returned one and the same ordering.
C19_InstructionKeyedEntries ==
    /\ (Done("format_all_tables") /\ call.cls \in BaseFamily) =>
           LET key == <<"tables", call.args[2], str(call.args[1])>>
           IN  key \in DOMAIN _cache /\ _cache[key] = call.result
    /\ \A t \in TableLists :
           Cardinality({k \in DOMAIN _cache : k[3] = str(t)})
               = Cardinality({r[1][2] : r \in {x \in returns : x[1][3] = str(t)}})
    /\ \A a \in returns : \A b \in returns :
           (a[1][2] = b[1][2] /\ a[1][3] = b[1][3]) => a[2] = b[2]

\* the same three tables are cached under both instructions in two different orders,
\* and a hit has just returned the order of its own instruction
C19_Witness ==
    LET t == <<Untyped, Bare, Empty>>
        k1 == <<"tables", <<"q1">>, str(t)>>
        k2 == <<"tables", <<"q2">>, str(t)>>
    IN  /\ k1 \in DOMAIN _cache
        /\ k2 \in DOMAIN _cache
        /\ _cache[k1] # _cache[k2]
        /\ Done("format_all_tables")
        /\ call.branch = "hit"
        /\ call.args = <<t, <<"q1">>>>
        /\ call.result = _cache[k1]

\* C20: whatever a caller does with a list format_all_tables returned, the memo table
\* keeps for each key the ordering its first call returned, and every later call with
\* that key returns that ordering.
C20_StoredOrderingSurvivesCaller ==
    /\ \A k \in DOMAIN _cache : \A r \in returns : r[1] = k => _cache[k] = r[2]
    /\ \A a \in returns : \A b \in returns : a[1] = b[1] => a[2] = b[2]

\* C21: with two callers inside format_all_tables at once, the check, the shuffle and
\* the store being steps of their own, every call of a key returns one and the same
\* ordering, and an entry of the memo table that a call has returned is never replaced
\* by another ordering.
C21_ConcurrentCallsAgree ==
    [][ /\ \A a \in returns' : \A b \in returns' : a[1] = b[1] => a[2] = b[2]
        /\ \A k \in DOMAIN _cache :
               (\E r \in returns : r[1] = k) => _cache'[k] = _cache[k]
      ]_vars

\* C22: the memo table is one table for the whole base family: a format_all_tables call
\* through a derived class, for an instruction and tables whose ordering was fixed
\* through RajkumarFormatter, takes the hit branch and returns that ordering verbatim,
\* the one every earlier call of the key returned, and stores nothing of its own.
C22_MemoSharedAcrossVariants ==
    (Done("format_all_tables") /\ call.cls \in BaseFamily \ {"RajkumarFormatter"}) =>
        LET key == <<"tables", call.args[2], str(call.args[1])>>
        IN  /\ call.branch = "hit"
            /\ call.result = _cache[key]
            /\ \A r \in returns : r[1] = key => r[2] = call.result

\* DuckDBInstFormatter returned, for three tables, an ordering that is not the input
\* order: the one fixed through RajkumarFormatter
C22_Witness ==
    /\ Done("format_all_tables")
    /\ call.cls = "DuckDBInstFormatter"
    /\ call.branch = "hit"
    /\ Len(call.result) = 3
    /\ call.result # [i \in 1..3 |-> format_table(call.args[1][i])]
    /\ Cardinality(DOMAIN _cache) = 2

\* C23: a DuckDBChat.format_all_tables call leaves the memo table as it is and takes
\* nothing from it: whenever it gets as far as the service it has invoked it exactly
\* once, a repeated call included, and the user message it returns holds the rendered
\* tables in input order with a blank line between them.
C23_ChatUsesNoMemo ==
    [][ (Handling("format_all_tables") /\ call.cls = "DuckDBChat" /\ call' # call) =>
            /\ UNCHANGED <<_cache, returns>>
            /\ call'.result # <<"ManifestError">> => manifest'.runs = 1
            /\ call'.status = "done" =>
                   call'.result[1].content =
                       <<"SQL schema of my database:\n">>
                       \o join(<<"\n\n">>, [i \in 1..Len(call.args[1]) |->
                                               DuckDBChat_format_table(call.args[1][i])])
                       \o <<"\nExplain in a few sentences what the data is about:\n        ">>
      ]_vars

\* a later chat call, made with the arguments for which the memo table of the base
\* family holds another order, returned the tables in input order
C23_Witness ==
    LET key == <<"tables", call.args[2], str(call.args[1])>>
    IN  /\ Done("format_all_tables")
        /\ call.cls = "DuckDBChat"
        /\ call.branch = "reused"
        /\ manifest.runs = 1
        /\ key \in DOMAIN _cache
        /\ _cache[key][1] = format_table(Empty)
        /\ Contains(call.result[1].content,
                    format_table(Untyped) \o <<"\n\n">> \o format_table(Bare)
                    \o <<"\n\n">> \o format_table(Empty))


\* C24: format_model_output of the base family applied to its own result, under any
\* prompt, gives that result back; the result holds no run of three backticks and
\* ends with the terminator, and the empty output gives the terminator alone.
C24_ModelOutputIdempotent ==
    (Done("format_model_output") /\ call.cls \in BaseFamily) =>
        /\ \A q \in Prompts : format_model_output(call.cls, call.result, q) = call.result
        /\ ~Contains(call.result, Fence)
        /\ endswith(call.result, <<";">>)
        /\ call.args[1] = <<>> => call.result = <<";">>

\* an output whose fence, once removed, left three backticks side by side was cleaned
C24_Witness ==
    /\ Done("format_model_output")
    /\ call.cls = "RajkumarFormatter"
    /\ call.args[1] = <<Tick, Tick, Tick, Tick, Tick, "sql", "\n", Tick, "x">>
    /\ call.result = <<"x", ";">>


\* C25: the registry maps the key "duckdbinstgptmini" to DuckDBInstFormatterGPTmini, a
\* lookup of that key returns that class, and every class constants.py imports is the
\* value of some key.
C25_KeysDenoteTheirVariant ==
    registry # "unloaded" =>
        /\ PROMPT_FORMATTERS["duckdbinstgptmini"] = "DuckDBInstFormatterGPTmini"
        /\ \A n \in ImportedNames : \E k \in DOMAIN PROMPT_FORMATTERS : PROMPT_FORMATTERS[k] = n
        /\ (call.op = "lookup" /\ call.status \in {"done", "raised"}
               /\ call.args[1] = "duckdbinstgptmini") =>
               (call.status = "done" /\ call.result = "DuckDBInstFormatterGPTmini")

====
